---- MODULE Spec2Model ----
(***************************************************************************)
(* AMP relay: the WebSocket transport hub (internal/transport/websocket.go) *)
(* and the relay engine that routes decoded messages on top of it           *)
(* (internal/server/server.go).                                             *)
(*                                                                          *)
(* Goroutines are modelled by program counters: rp[c] is the read pump of   *)
(* connection c (it also runs the engine's message handler, which is called *)
(* synchronously from the read loop), wp[c] its write pump, hubPc the hub   *)
(* dispatcher runHub and stopPc a caller of WebSocketServer.Stop.  A step   *)
(* is one critical section or one channel operation of the Go code.         *)
(*                                                                          *)
(* The placeholder authenticator (internal/auth/auth.go) and the in-memory  *)
(* message store (package storage) are libraries with callers of their own: *)
(* a caller is a goroutine of Procs, and a step is one section under the    *)
(* mutex of the library.  Each part has its own specification.              *)
(*                                                                          *)
(* The life cycle of the relay (RelayServer.Start, Stop and the cleanup     *)
(* loop) and the RFC-002 handshake handler (internal/transport/             *)
(* rfc002_auth.go) have specifications of their own as well.                *)
(***************************************************************************)
EXTENDS Integers, Sequences, FiniteSets, TLC

\* ------------------------------------------------------------------ bounds
\* Capacity of a connection's send queue (256 in the code, scaled down).
SendChanCap == 1
\* The wall-clock reading the run takes place at (milliseconds).
StartTime == 2
\* How many times the clock advances after StartTime.
MaxTicks == 2
\* How many token ids the authenticator generates.
MaxTokens == 3
\* PlaceholderAuthenticator.tokenDuration (24 hours in the code, scaled down).
TokenDuration == 1
\* How long a connection record may stay without activity before the cleanup
\* removes it (5 minutes in the code, scaled down).
InactiveTimeout == 1
\* Width in bits of the unsigned words of Message.Ts and Message.TTL (64 in the
\* build, scaled down).
UintBits == 3

\* ------------------------------------------------------------- the universe
Conns == {"c1", "c2", "c3"}
HubConns == {"c1", "c2"}
RelayDID == "relay-server"
NoDID == ""
\* The DID the agent behind a connection would prove in a handshake.
AgentDID(c) == "did:" \o c
Routes == {"echo"}
HandlerResults == {"response", "nil", "error"}
\* Goroutines calling the authenticator and the message store.
Procs == {"p1", "p2"}

VARIABLES
    \* WebSocketServer
    clients,       \* ws.clients: the ids in the connection table
    sendChan,      \* Client.SendChan: buffered frames per connection
    chanClosed,    \* whether close(client.SendChan) has run
    chanCloses,    \* how many times close(client.SendChan) has run
    closed,        \* Client.closed
    connCloses,    \* calls of Conn.Close() per connection, by caller
    ctxDone,       \* ws.ctx cancelled
    running,       \* ws.running
    hubPc,         \* runHub goroutine: "idle", "running", "exited"
    stopPc,        \* a caller inside WebSocketServer.Stop
    panicked,      \* the runtime panic that ended the process, or "none"
    \* per-connection goroutines
    rp,            \* read pump / HTTP handler of the connection
    wp,            \* write pump
    work,          \* SendToClient calls the running handler still has to make
    \* RelayServer
    engClients,    \* s.clients: connection id -> ClientInfo
    store,         \* s.store: message id -> stored entry
    authState,     \* engine view of the connection: NEW until a handshake admits it
    now,           \* wall clock
    \* history
    handlerCalled, \* connections whose frames reached the message handler
    log,           \* per received request/event: what the engine did with it
    \* PlaceholderAuthenticator
    tokens,        \* p.tokens: token id -> TokenClaims
    tokenSeq,      \* how many token ids generateTokenID has produced
    authCalls,     \* per caller: the authenticator call it is inside
    authHist,      \* the authenticator calls that have returned
    \* MemoryStore callers
    storeCalls,    \* per caller: the store call it is inside
    storeHist,     \* the store calls that have returned
    storeLast,     \* the last store call that returned, and its answer
    \* callers of Start and Stop
    startRet,      \* what the last call of WebSocketServer.Start returned
    srvRunning,    \* RelayServer.running
    srvCtxDone,    \* RelayServer.ctx cancelled
    srvStopPc,     \* the caller of RelayServer.Stop: "idle", "hub", "wait"
    cleanupLoops,  \* cleanupLoop goroutines that have not returned
    hubsMade,      \* how many hubs NewWebSocketServer has made for the relay
    relayRet,      \* what the last call of RelayServer.Start or Stop returned
    \* WebSocketAuthHandler callers
    authResp,      \* per connection: the last HandleAuth call made for it
    expCall,       \* one Message.IsExpired call: the message, the clock, the answer
    decodeFailed,  \* connections that sent a frame the engine could not decode
    \* MessageRelay (package pkg/transport)
    transports,    \* r.transports: DID -> the transport registered for it
    isClosed,      \* WSTransport.isClosed per transport
    loopPc,        \* MessageRelay.Start per transport: "idle", "receiving", "done"
    fwdRet         \* what the last MessageRelay.Forward did and returned

hubVars == <<clients, sendChan, chanClosed, chanCloses, closed, connCloses,
             ctxDone, running, hubPc, stopPc>>
pumpVars == <<rp, wp, work>>
engVars == <<engClients, store, authState, now>>
histVars == <<handlerCalled, log>>
authVars == <<tokens, tokenSeq, authCalls, authHist>>
msVars == <<storeCalls, storeHist, storeLast>>
relayVars == <<srvRunning, srvCtxDone, srvStopPc, cleanupLoops, hubsMade, relayRet>>
mrVars == <<transports, isClosed, loopPc, fwdRet>>
wireVars == <<authResp, expCall, decodeFailed, mrVars>>
lifeVars == <<startRet, relayVars, wireVars>>
libVars == <<authVars, msVars, lifeVars>>
vars == <<hubVars, panicked, pumpVars, engVars, histVars, libVars>>

\* ---------------------------------------------------------------- messages
MalformedFrame == [kind |-> "garbage"]

\* Message of the protocol package the engine is written against.
Message(id, type, src, dst, action, ttl, ts) ==
    [ID |-> id, Type |-> type, Timestamp |-> ts, Source |-> src,
     Destination |-> dst, Action |-> action, TTL |-> ttl,
     CorrelationID |-> "", Code |-> ""]

\* CBORMarshal / CBORUnmarshal: a frame either carries a message or does not decode.
CBORMarshal(m) == [kind |-> "cbor", msg |-> m]
Decodable(f) == f.kind = "cbor"
CBORUnmarshal(f) == f.msg

\* Ts and TTL are uint64: their sum is taken modulo 2^64.  The model keeps the
\* arithmetic and scales the word to UintBits bits.
UintMod == 2 ^ UintBits

\* Message.IsExpired at time t: uint64(now) > m.Ts + m.TTL, false for TTL = 0.
IsExpired(m, t) ==
    IF m.TTL = 0 THEN FALSE ELSE t % UintMod > (m.Timestamp + m.TTL) % UintMod

\* protocol.NewMessage(MessageTypeError, "relay-server", originalMsg.Source, "error", ...)
\* with CorrelationID and metadata error_code set (sendErrorResponse).
ErrorMessage(orig, code) ==
    [Message("gen", "error", RelayDID, orig.Source, "error", 0, 0)
        EXCEPT !.CorrelationID = orig.ID, !.Code = code]

\* The message a route handler returns, sent as the handler made it.
ResponseMessageUnstamped(orig) ==
    Message("gen", "response", RelayDID, orig.Source, orig.Action, 0, 0)

\* The message a route handler returns, after sendResponse has stamped it.
ResponseMessage(orig) ==
    [Message("gen", "response", RelayDID, orig.Source, orig.Action, 0, 0)
        EXCEPT !.CorrelationID = orig.ID]

\* One pending SendToClient call of a handler.
Task(kind, to, m, id) == [kind |-> kind, to |-> to, frame |-> CBORMarshal(m), id |-> id]


\* ------------------------------------------------------------ relay engine
\* Durations are counted in milliseconds, the unit of Message.TTL and
\* Message.Ts: time.Second, and Config.DefaultTTL (5 * time.Minute).
Second == 1000
DefaultTTL == 300000

\* ttl := s.config.DefaultTTL; if msg.TTL > 0 { ttl = time.Duration(msg.TTL) * time.Second }
EffectiveTTL(m) == IF m.TTL > 0 THEN m.TTL * Second ELSE DefaultTTL

\* RelayServer.updateClientActivity: touch the record, or create one with no DID.
updateClientActivity(tbl, c, t) ==
    [x \in DOMAIN tbl \cup {c} |->
        IF x = c
        THEN IF c \in DOMAIN tbl
             THEN [tbl[c] EXCEPT !.LastActivity = t]
             ELSE [ID |-> c, DID |-> NoDID, ConnectedAt |-> t, LastActivity |-> t]
        ELSE tbl[x]]

\* MemoryStore.Save as the engine sees it: insert or overwrite under the message id.
Save(st, m, ttl, t) ==
    [x \in DOMAIN st \cup {m.ID} |->
        IF x = m.ID THEN [message |-> m, ttl |-> ttl, savedAt |-> t] ELSE st[x]]

\* All enumerations of a finite set (Go's map iteration order is unspecified).
Orderings(S) ==
    {s \in [1..Cardinality(S) -> S] : \A i, j \in 1..Cardinality(S) : i # j => s[i] # s[j]}

Outcome(save, dispatched, notFound, tasks) ==
    [save |-> save, dispatched |-> dispatched, notFound |-> notFound, tasks |-> tasks]

\* RelayServer.forwardMessage: the first record whose DID equals the destination,
\* in map order; nothing is sent when there is none.
forwardMessage(m, tbl) ==
    LET T == {id \in DOMAIN tbl : tbl[id].DID = m.Destination}
    IN  IF T = {} THEN {<<>>} ELSE {<<Task("forward", id, m, m.ID)>> : id \in T}

\* RelayServer.handleRequest, up to the SendToClient calls it makes.
handleRequest(c, m, saveOk, hres, tbl) ==
    IF ~saveOk
    THEN {Outcome(FALSE, FALSE, FALSE,
                  <<Task("error", c, ErrorMessage(m, "storage_error"), m.ID)>>)}
    ELSE IF m.Action \in Routes /\ hres = "error"
    THEN {Outcome(TRUE, TRUE, FALSE,
                  <<Task("error", c, ErrorMessage(m, "handler_error"), m.ID)>>)}
    ELSE IF m.Action \in Routes /\ hres = "response"
    THEN {Outcome(TRUE, TRUE, FALSE,
                  <<Task("response", c, ResponseMessage(m), m.ID)>>)}
    ELSE IF m.Destination # "" /\ m.Destination # RelayDID
    THEN {Outcome(TRUE, m.Action \in Routes, w = <<>>, w) : w \in forwardMessage(m, tbl)}
    ELSE {Outcome(TRUE, m.Action \in Routes, FALSE, <<>>)}

\* handleEvent with the error of Save logged but not returned.
handleEventIgnoringSaveError(c, m, saveOk, tbl) ==
    {Outcome(saveOk, FALSE, FALSE,
             [i \in DOMAIN ord |-> Task("forward", ord[i], m, m.ID)]) :
        ord \in Orderings({id \in DOMAIN tbl : id # c})}

\* RelayServer.handleEvent, up to the SendToClient calls it makes.
handleEvent(c, m, saveOk, tbl) ==
    IF ~saveOk
    THEN {Outcome(FALSE, FALSE, FALSE, <<>>)}
    ELSE {Outcome(TRUE, FALSE, FALSE,
                  [i \in DOMAIN ord |-> Task("forward", ord[i], m, m.ID)]) :
            ord \in Orderings({id \in DOMAIN tbl : id # c})}

\* A handler that answers a failed forward with an error response to the sender.
AfterSendReportingFailure(c, w, ok) ==
    IF ok \/ Head(w).kind # "forward"
    THEN Tail(w)
    ELSE <<Task("error", c, ErrorMessage(CBORUnmarshal(Head(w).frame), "forward_failed"),
                Head(w).id)>> \o Tail(w)

\* A handler that gives up the remaining sends after the first failed one.
AfterSendStoppingAtFailure(c, w, ok) == IF ok THEN Tail(w) ELSE <<>>

\* What the handler does once SendToClient has returned ok for the head of w:
\* handleEvent logs a failure and goes on, handleRequest returns the error to the
\* read loop, which logs it.  No further send is made for the failed one.
AfterSend(c, w, ok) == Tail(w)

\* The error codes of the error responses in a list of pending sends.
ErrCodes(w) == {w[i].frame.msg.Code : i \in {j \in DOMAIN w : w[j].kind = "error"}}

LogEntry(c, m, out, tbl, t) ==
    [conn |-> c, msg |-> m, expired |-> IsExpired(m, t),
     saved |-> out.save, dispatched |-> out.dispatched, notFound |-> out.notFound,
     known |-> DOMAIN tbl, errs |-> ErrCodes(out.tasks),
     tried |-> {}, failed |-> {}, sent |-> {}, returned |-> out.tasks = <<>>,
     afterDecodeErr |-> decodeFailed[c]]


\* ------------------------------------------------------------ construction
\* A caller that is in no call.
NoClaims == [DID |-> NoDID, IssuedAt |-> 0, ExpiresAt |-> 0, TokenID |-> 0]
IdleCall == [pc |-> "idle", op |-> "none", token |-> 0, claims |-> NoClaims]
\* The answer of a Get that finds nothing, and a caller that is in no Get.
\* While a caller is inside a Get its record holds the id, the entry the Get
\* found expired (while it waits for the write lock) or the message it is
\* going to return, and whether the Get found its entry expired.
NilMessage == [ID |-> "nil"]
GetCall(pc, id, seen, ret, expired) ==
    [pc |-> pc, id |-> id, seen |-> seen, ret |-> ret, expired |-> expired]
IdleGet == GetCall("idle", "", NilMessage, NilMessage, FALSE)
\* What the authenticator calls so far have returned: the DID of every token
\* issued, the successful refreshes as pairs <<old, new>>, how many times the
\* revocation of a token has succeeded, and the tokens a ValidateToken has
\* reported expired.
NoHistory == [issued |-> <<>>, refreshed |-> {}, revokes |-> <<>>, expired |-> {}]

\* A call of the store that has returned: the call, the id it was about, the
\* messages it returned, and whether it found something to replace (Save) or
\* something to remove (Delete, List; for Get, an entry it found expired).
\* err is the error it returned.  NoReturn before the first call returns.
StoreReturn(op, id, ret, hit) ==
    [op |-> op, id |-> id, ret |-> ret, hit |-> hit, err |-> "nil"]
NoReturn == StoreReturn("none", "", <<>>, FALSE)

\* What a call of WebSocketServer.Start returned, and whether it found the hub
\* running.  NoStart before the first call.
StartReturn(err, already) == [err |-> err, already |-> already]
NoStart == StartReturn("none", FALSE)

\* What a call of RelayServer.Start or RelayServer.Stop returned.  NoCall
\* before the first call.
RelayReturn(op, err) == [op |-> op, err |-> err]
NoCall == RelayReturn("none", "nil")

\* A call of HandleAuth: the frame it was given, the clock it read, and the
\* AuthResponse it returned.  NoHandshake for a connection with no call yet.
NoResponse == [Type |-> "none", ErrorCode |-> "", MaxMsgSize |-> 0, Timestamp |-> 0]
NoHandshake == [frame |-> [kind |-> "none"], at |-> 0, resp |-> NoResponse]

\* One call of Message.IsExpired: the receiver's Ts and TTL, time.Now() in
\* milliseconds, whether the call has returned and what it returned.
ExpiryCall(ts, ttl, at) == [Ts |-> ts, TTL |-> ttl, at |-> at, done |-> FALSE, ret |-> FALSE]
NoExpiry == ExpiryCall(0, 0, 0)

\* The transports handed to MessageRelay.Start, and the DID each is the local
\* end of: two connections of one agent and one of another.
Transports == {"t1", "t2", "t3"}
LocalDID(t) == IF t = "t3" THEN "did:b" ELSE "did:a"
RelayDIDs == {"did:a", "did:b", "did:x"}

\* What a call of MessageRelay.Forward did: the DID of the message, the
\* transport whose Send it called ("none" when the DID is not registered) and
\* the error it returned.  NoForward before the first call.
ForwardReturn(to, via, err) == [to |-> to, via |-> via, err |-> err]
NoForward == ForwardReturn("", "none", "none")

\* NewPlaceholderAuthenticator, NewMemoryStore and NewMessageRelay: empty
\* tables, nobody calling.
LibInit ==
    /\ tokens = <<>>
    /\ tokenSeq = 0
    /\ authCalls = [p \in Procs |-> IdleCall]
    /\ authHist = NoHistory
    /\ storeCalls = [p \in Procs |-> IdleGet]
    /\ storeHist = <<>>
    /\ storeLast = NoReturn
    /\ startRet = NoStart
    /\ srvRunning = FALSE
    /\ srvCtxDone = FALSE
    /\ srvStopPc = "idle"
    /\ cleanupLoops = 0
    /\ hubsMade = 0
    /\ relayRet = NoCall
    /\ authResp = [c \in Conns |-> NoHandshake]
    /\ decodeFailed = [c \in Conns |-> FALSE]
    /\ transports = <<>>
    /\ isClosed = [t \in Transports |-> FALSE]
    /\ loopPc = [t \in Transports |-> "idle"]
    /\ fwdRet = NoForward

\* NewWebSocketServer and NewRelayServer: nothing connected, nothing stored.
InitButExpiry ==
    /\ clients = {}
    /\ sendChan = [c \in Conns |-> <<>>]
    /\ chanClosed = [c \in Conns |-> FALSE]
    /\ chanCloses = [c \in Conns |-> 0]
    /\ closed = [c \in Conns |-> FALSE]
    /\ connCloses = [c \in Conns |-> [byClose |-> 0, byPump |-> 0]]
    /\ ctxDone = FALSE
    /\ running = FALSE
    /\ hubPc = "idle"
    /\ stopPc = "idle"
    /\ panicked = "none"
    /\ rp = [c \in Conns |-> "idle"]
    /\ wp = [c \in Conns |-> "idle"]
    /\ work = [c \in Conns |-> <<>>]
    /\ engClients = <<>>
    /\ store = <<>>
    /\ authState = [c \in Conns |-> "NEW"]
    /\ now = StartTime
    /\ handlerCalled = [c \in Conns |-> FALSE]
    /\ log = <<>>
    /\ LibInit

\* No message has been asked whether it is expired.
Init == InitButExpiry /\ expCall = NoExpiry

\* ------------------------------------------------------------ transport hub
\* WebSocketServer.Start: a second Start on a running server returns nil.
Start ==
    /\ panicked = "none"
    /\ IF running
       THEN UNCHANGED <<running, hubPc>>
       ELSE running' = TRUE /\ hubPc' = "running"
    /\ startRet' = StartReturn("nil", running)
    /\ UNCHANGED <<clients, sendChan, chanClosed, chanCloses, closed, connCloses,
                   ctxDone, stopPc, panicked, pumpVars, engVars, authVars, msVars,
                   relayVars, wireVars, histVars>>

\* handleWebSocket after the upgrade: the new client blocks on ws.register <- client.
Connect(c) ==
    /\ panicked = "none"
    /\ running
    /\ rp[c] = "idle"
    /\ rp' = [rp EXCEPT ![c] = "registering"]
    /\ UNCHANGED <<hubVars, panicked, wp, work, engVars, libVars, histVars>>

\* runHub, case client := <-ws.register; handleWebSocket then starts both pumps.
HubRegister(c) ==
    /\ panicked = "none"
    /\ hubPc = "running"
    /\ rp[c] = "registering"
    /\ clients' = clients \cup {c}
    /\ rp' = [rp EXCEPT ![c] = "reading"]
    /\ wp' = [wp EXCEPT ![c] = "running"]
    /\ UNCHANGED <<sendChan, chanClosed, chanCloses, closed, connCloses, ctxDone,
                   running, hubPc, stopPc, panicked, work, engVars, libVars, histVars>>

\* Client.Close on every connection of S: the flag is tested and set under c.mu,
\* and only the call that sets it closes the socket.
CloseAll(S) ==
    /\ closed' = [c \in Conns |-> closed[c] \/ c \in S]
    /\ connCloses' = [c \in Conns |->
            IF c \in S /\ ~closed[c]
            THEN [connCloses[c] EXCEPT !.byClose = @ + 1]
            ELSE connCloses[c]]

\* An unregister case that leaves the connection in the table.
HubUnregisterLeavingEntry(c) ==
    /\ panicked = "none"
    /\ hubPc = "running"
    /\ rp[c] = "unregistering"
    /\ rp' = [rp EXCEPT ![c] = "done"]
    /\ connCloses' = [connCloses EXCEPT ![c].byPump = @ + 1]
    /\ UNCHANGED <<clients, chanCloses, chanClosed, panicked>>
    /\ UNCHANGED <<sendChan, closed, ctxDone, running, hubPc, stopPc, wp, work,
                   engVars, libVars, histVars>>
\* runHub, case client := <-ws.unregister, paired with the read pump's deferred
\* c.Server.unregister <- c; the read pump then closes its socket and ends.
HubUnregister(c) ==
    /\ panicked = "none"
    /\ hubPc = "running"
    /\ rp[c] = "unregistering"
    /\ rp' = [rp EXCEPT ![c] = "done"]
    /\ connCloses' = [connCloses EXCEPT ![c].byPump = @ + 1]
    /\ IF c \in clients
       THEN /\ clients' = clients \ {c}
            /\ chanCloses' = [chanCloses EXCEPT ![c] = @ + 1]
            /\ chanClosed' = [chanClosed EXCEPT ![c] = TRUE]
            /\ panicked' = IF chanClosed[c] THEN "close of closed channel" ELSE "none"
       ELSE UNCHANGED <<clients, chanCloses, chanClosed, panicked>>
    /\ UNCHANGED <<sendChan, closed, ctxDone, running, hubPc, stopPc, wp, work,
                   engVars, libVars, histVars>>

BroadcastFrame == [kind |-> "raw"]

\* A broadcast that gives the frame up as soon as one queue of the snapshot is
\* full: the slow consumers are closed and nobody gets the frame.
HubBroadcastStoppingAtSlow ==
    /\ panicked = "none"
    /\ hubPc = "running"
    /\ LET full == {c \in clients : Len(sendChan[c]) >= SendChanCap}
       IN  /\ sendChan' = [c \in Conns |->
                    IF c \in clients /\ full = {}
                    THEN Append(sendChan[c], BroadcastFrame)
                    ELSE sendChan[c]]
           /\ CloseAll(full)
    /\ UNCHANGED <<clients, chanClosed, chanCloses, ctxDone, running, hubPc, stopPc,
                   panicked, pumpVars, engVars, libVars, histVars>>

\* runHub, case message := <-ws.broadcast, paired with a caller of Broadcast:
\* non-blocking send to every client of the snapshot, Close on a full queue.
HubBroadcast ==
    /\ panicked = "none"
    /\ hubPc = "running"
    /\ LET full == {c \in clients : Len(sendChan[c]) >= SendChanCap}
       IN  /\ sendChan' = [c \in Conns |->
                    IF c \in clients \ full
                    THEN Append(sendChan[c], BroadcastFrame)
                    ELSE sendChan[c]]
           /\ CloseAll(full)
    /\ UNCHANGED <<clients, chanClosed, chanCloses, ctxDone, running, hubPc, stopPc,
                   panicked, pumpVars, engVars, libVars, histVars>>

\* runHub, case <-ws.ctx.Done(): the dispatcher returns.
HubExit ==
    /\ panicked = "none"
    /\ hubPc = "running"
    /\ ctxDone
    /\ hubPc' = "exited"
    /\ UNCHANGED <<clients, sendChan, chanClosed, chanCloses, closed, connCloses,
                   ctxDone, running, stopPc, panicked, pumpVars, engVars, libVars, histVars>>

\* WebSocketServer.Stop, first part: running is read and the context cancelled.
StopCancel ==
    /\ panicked = "none"
    /\ running
    /\ stopPc = "idle"
    /\ ctxDone' = TRUE
    /\ stopPc' = "cancelled"
    /\ UNCHANGED <<clients, sendChan, chanClosed, chanCloses, closed, connCloses,
                   running, hubPc, panicked, pumpVars, engVars, libVars, histVars>>

\* WebSocketServer.Stop, under clientsMu: Close every client, replace the table.
StopCloseClients ==
    /\ panicked = "none"
    /\ stopPc = "cancelled"
    /\ CloseAll(clients)
    /\ clients' = {}
    /\ stopPc' = "closedAll"
    /\ UNCHANGED <<sendChan, chanClosed, chanCloses, ctxDone, running, hubPc,
                   panicked, pumpVars, engVars, libVars, histVars>>

\* WebSocketServer.Stop, last part: Shutdown, wg.Wait() for the dispatcher, running = false.
StopWait ==
    /\ panicked = "none"
    /\ stopPc = "closedAll"
    /\ hubPc = "exited"
    /\ running' = FALSE
    /\ stopPc' = "idle"
    /\ UNCHANGED <<clients, sendChan, chanClosed, chanCloses, closed, connCloses,
                   ctxDone, hubPc, panicked, pumpVars, engVars, libVars, histVars>>


\* --------------------------------------------------------------- write pump
\* writePump, case message, ok := <-c.SendChan with ok: the frame is written.
WriteDequeue(c) ==
    /\ panicked = "none"
    /\ wp[c] = "running"
    /\ sendChan[c] # <<>>
    /\ sendChan' = [sendChan EXCEPT ![c] = Tail(@)]
    /\ UNCHANGED <<clients, chanClosed, chanCloses, closed, connCloses, ctxDone,
                   running, hubPc, stopPc, panicked, pumpVars, engVars, libVars, histVars>>

\* The write pump returns and its deferred c.Conn.Close() runs.
WritePumpExit(c) ==
    /\ wp' = [wp EXCEPT ![c] = "done"]
    /\ connCloses' = [connCloses EXCEPT ![c].byPump = @ + 1]
    /\ UNCHANGED <<clients, sendChan, chanClosed, chanCloses, closed, ctxDone,
                   running, hubPc, stopPc, panicked, rp, work, engVars, libVars, histVars>>

\* writePump: WriteMessage of a frame or of a ping fails.
WriteFail(c) ==
    /\ panicked = "none"
    /\ wp[c] = "running"
    /\ WritePumpExit(c)

\* writePump, case message, ok := <-c.SendChan with !ok: the queue is closed and drained.
WriteClosed(c) ==
    /\ panicked = "none"
    /\ wp[c] = "running"
    /\ chanClosed[c]
    /\ sendChan[c] = <<>>
    /\ WritePumpExit(c)

\* writePump, case <-c.Server.ctx.Done().
WriteCtxDone(c) ==
    /\ panicked = "none"
    /\ wp[c] = "running"
    /\ ctxDone
    /\ WritePumpExit(c)

\* ---------------------------------------------------------------- read pump
\* readPump: ReadMessage returns an error; the loop breaks and the deferred
\* function blocks on c.Server.unregister <- c.
ReadError(c) ==
    /\ panicked = "none"
    /\ rp[c] = "reading"
    /\ rp' = [rp EXCEPT ![c] = "unregistering"]
    /\ UNCHANGED <<hubVars, panicked, wp, work, engVars, libVars, histVars>>

\* RelayServer.handleWebSocketMessage for a decoded request or event.  Clients
\* draw message ids from a clock and a random source: no id is sent twice.
Route(c, m, saveOk, hres) ==
    /\ m.ID \notin DOMAIN log
    /\ engClients' = updateClientActivity(engClients, c, now)
    /\ \E out \in IF m.Type = "request"
                  THEN handleRequest(c, m, saveOk, hres, engClients')
                  ELSE handleEvent(c, m, saveOk, engClients') :
          /\ store' = IF out.save THEN Save(store, m, EffectiveTTL(m), now) ELSE store
          /\ work' = [work EXCEPT ![c] = out.tasks]
          /\ rp' = [rp EXCEPT ![c] = IF out.tasks = <<>> THEN "reading" ELSE "handling"]
          /\ log' = [x \in DOMAIN log \cup {m.ID} |->
                        IF x = m.ID THEN LogEntry(c, m, out, engClients', now) ELSE log[x]]

\* readPump: a frame is read and handed to the message handler, with no check of
\* the connection's state; RelayServer.handleWebSocketMessage decodes and routes it.
ReadFrameTouchingFirst(c, f, saveOk, hres) ==
    /\ panicked = "none"
    /\ rp[c] = "reading"
    /\ handlerCalled' = [handlerCalled EXCEPT ![c] = TRUE]
    /\ IF ~Decodable(f)
       THEN /\ decodeFailed' = [decodeFailed EXCEPT ![c] = TRUE]
            /\ engClients' = updateClientActivity(engClients, c, now)
            /\ UNCHANGED <<store, rp, work, log>>
       ELSE /\ UNCHANGED decodeFailed
            /\ IF CBORUnmarshal(f).Type \notin {"request", "event"}
               THEN /\ engClients' = updateClientActivity(engClients, c, now)
                    /\ UNCHANGED <<store, rp, work, log>>
               ELSE Route(c, CBORUnmarshal(f), saveOk, hres)
    /\ UNCHANGED <<hubVars, panicked, wp, authState, now, authVars, msVars,
                   startRet, relayVars, authResp, expCall, mrVars>>
ReadFrame(c, f, saveOk, hres) ==
    /\ panicked = "none"
    /\ rp[c] = "reading"
    /\ handlerCalled' = [handlerCalled EXCEPT ![c] = TRUE]
    /\ IF ~Decodable(f)
       THEN /\ decodeFailed' = [decodeFailed EXCEPT ![c] = TRUE]
            /\ UNCHANGED <<engClients, store, rp, work, log>>
       ELSE /\ UNCHANGED decodeFailed
            /\ IF CBORUnmarshal(f).Type \notin {"request", "event"}
               THEN /\ engClients' = updateClientActivity(engClients, c, now)
                    /\ UNCHANGED <<store, rp, work, log>>
               ELSE Route(c, CBORUnmarshal(f), saveOk, hres)
    /\ UNCHANGED <<hubVars, panicked, wp, authState, now, authVars, msVars,
                   startRet, relayVars, authResp, expCall, mrVars>>

\* The handler goes on after SendToClient returned ok for its pending send.
FinishSend(c, ok) ==
    LET t == Head(work[c])
        w == AfterSend(c, work[c], ok)
    IN  /\ work' = [work EXCEPT ![c] = w]
        /\ rp' = [rp EXCEPT ![c] = IF w = <<>> THEN "reading" ELSE "handling"]
        /\ log' = [log EXCEPT ![t.id] =
                     [@ EXCEPT !.tried = IF t.kind = "forward" THEN @ \cup {t.to} ELSE @,
                               !.failed = IF t.kind = "forward" /\ ~ok THEN @ \cup {t.to} ELSE @,
                               !.sent = @ \cup {<<t.kind, t.to, ok>>},
                               !.errs = @ \cup ErrCodes(w),
                               !.returned = (w = <<>>)]]

\* SendToClient, first half: the table lookup under clientsMu.RLock.
SendLookup(c) ==
    /\ panicked = "none"
    /\ rp[c] = "handling"
    /\ IF Head(work[c]).to \in clients
       THEN /\ rp' = [rp EXCEPT ![c] = "sending"]
            /\ UNCHANGED <<work, log>>
       ELSE FinishSend(c, FALSE)
    /\ UNCHANGED <<hubVars, panicked, wp, engVars, libVars, handlerCalled>>

\* A SendToClient that reports success when the queue is full, enqueuing nothing.
SendEnqueueReportingOnly(c) ==
    /\ panicked = "none"
    /\ rp[c] = "sending"
    /\ FinishSend(c, TRUE)
    /\ UNCHANGED <<hubVars, panicked, wp, engVars, libVars, handlerCalled>>
\* SendToClient, second half: case client.SendChan <- data.  The client pointer
\* was taken in the first half; nothing tells whether its queue is closed by now.
SendEnqueue(c) ==
    /\ panicked = "none"
    /\ rp[c] = "sending"
    /\ LET t == Head(work[c])
       IN  IF chanClosed[t.to]
           THEN /\ panicked' = "send on closed channel"
                /\ UNCHANGED <<sendChan, rp, work, log>>
           ELSE /\ Len(sendChan[t.to]) < SendChanCap
                /\ sendChan' = [sendChan EXCEPT ![t.to] = Append(@, t.frame)]
                /\ FinishSend(c, TRUE)
                /\ UNCHANGED panicked
    /\ UNCHANGED <<clients, chanClosed, chanCloses, closed, connCloses, ctxDone,
                   running, hubPc, stopPc, wp, engVars, libVars, handlerCalled>>

\* SendToClient, second half: case <-time.After(100 * time.Millisecond).
SendTimeout(c) ==
    /\ panicked = "none"
    /\ rp[c] = "sending"
    /\ ~chanClosed[Head(work[c]).to]
    /\ Len(sendChan[Head(work[c]).to]) >= SendChanCap
    /\ FinishSend(c, FALSE)
    /\ UNCHANGED <<hubVars, panicked, wp, engVars, libVars, handlerCalled>>

\* ------------------------------------------------------------------- inputs
\* The frames a client may send: garbage, a message type the engine does not
\* route, requests and events.  A message is sent by the agent of the connection
\* with no ttl, or with ttl 1 and a timestamp that makes it expired (0) or not
\* (the current time), or under a DID that is not the agent's.  Requests of the
\* agent with no ttl come for every destination and action; the other stamps
\* come on a request to a remote DID with no registered action.
MsgIDs == {"m1"}
Stamps(c) ==
    {<<AgentDID(c), 0, 0>>, <<AgentDID(c), 1, 0>>, <<AgentDID(c), 1, StartTime>>,
     <<"did:mallory", 0, 0>>}
RequestFrames(c) ==
    {CBORMarshal(Message(id, "request", AgentDID(c), dst, act, 0, 0)) :
        id \in MsgIDs, dst \in {RelayDID, "did:c2"}, act \in {"echo", "none"}}
    \cup
    {CBORMarshal(Message(id, "request", st[1], "did:c2", "none", st[2], st[3])) :
        id \in MsgIDs, st \in Stamps(c)}
EventFrames(c) ==
    {CBORMarshal(Message(id, "event", st[1], "", "none", st[2], st[3])) :
        id \in MsgIDs, st \in Stamps(c)}
OtherFrames(c) ==
    {MalformedFrame,
     CBORMarshal(Message("m0", "response", AgentDID(c), RelayDID, "none", 0, 0))}
\* The traffic of the hub's own specification: a frame that only makes the
\* connection known to the engine, a broadcast that makes the engine send to
\* the other connections, and a request addressed to a remote DID.
HubFrames(c) ==
    {CBORMarshal(Message("m0", "response", AgentDID(c), RelayDID, "none", 0, 0)),
     CBORMarshal(Message("m1", "event", AgentDID(c), "", "none", 0, 0)),
     CBORMarshal(Message("m1", "request", AgentDID(c), "did:c2", "none", 0, 0))}
Frames(c) == RequestFrames(c) \cup EventFrames(c) \cup OtherFrames(c)

\* ------------------------------------------------ placeholder authenticator
\* The DIDs presented to Verify when seq tokens have been generated: the empty
\* one, which is refused, and that of an agent.  Two agents take turns, so that
\* tokens issued one after the other carry different DIDs.
VerifyDID(seq) == IF seq % 2 = 0 THEN AgentDID("c1") ELSE AgentDID("c2")
AuthDIDs(seq) == {VerifyDID(seq), NoDID}
\* A token that was never issued, and the tokens callers can hold.
NoToken == 0
KnownTokens == DOMAIN authHist.issued \cup {NoToken}

\* TokenClaims.IsExpired: time.Now().After(c.ExpiresAt).
IsExpiredClaims(cl, t) == t > cl.ExpiresAt

\* The claims Verify and RefreshToken build for a DID at time t.
NewClaims(did, t, id) ==
    [DID |-> did, IssuedAt |-> t, ExpiresAt |-> t + TokenDuration, TokenID |-> id]

\* delete(p.tokens, token)
DeleteToken(tbl, t) == [x \in DOMAIN tbl \ {t} |-> tbl[x]]
\* p.tokens[id] = claims
PutToken(tbl, t, cl) == [x \in DOMAIN tbl \cup {t} |-> IF x = t THEN cl ELSE tbl[x]]

\* An expired token left in the table.
AfterExpiryKeeping(tbl, t) == tbl
\* ValidateToken on an expired token: p.mu.Lock(); delete(p.tokens, token).
AfterExpiry(tbl, t) == DeleteToken(tbl, t)

\* A refresh that stores the new token and leaves the old one in the table.
RefreshSwapKeepingOld(tbl, old, cl) == PutToken(tbl, cl.TokenID, cl)
\* RefreshToken under p.mu.Lock: delete(p.tokens, token); p.tokens[newTokenID] = newClaims.
RefreshSwap(tbl, old, cl) == PutToken(DeleteToken(tbl, old), cl.TokenID, cl)

\* A revocation that reports success whether or not the token is in the table.
RevokeResultIgnoringMissing(tbl, t) == "ok"
\* RevokeToken: a token that is not in the table is an invalid token.
RevokeResult(tbl, t) == IF t \in DOMAIN tbl THEN "ok" ELSE "invalid_token"

\* ValidateToken run without interruption on table tbl at time t.
ValidateOutcome(tbl, t, time) ==
    IF t \notin DOMAIN tbl THEN "invalid_token"
    ELSE IF IsExpiredClaims(tbl[t], time) THEN "expired_token"
    ELSE "ok"

\* A call returns: the history keeps what the claims speak about.
Return(h, op, t, result, ret, did) ==
    [issued |-> IF result = "ok" /\ op \in {"verify", "refresh"}
                THEN [x \in DOMAIN h.issued \cup {ret} |->
                        IF x = ret THEN did ELSE h.issued[x]]
                ELSE h.issued,
     refreshed |-> IF result = "ok" /\ op = "refresh"
                   THEN h.refreshed \cup {<<t, ret>>} ELSE h.refreshed,
     revokes |-> IF result = "ok" /\ op = "revoke"
                 THEN [x \in DOMAIN h.revokes \cup {t} |->
                         IF x # t THEN h.revokes[x]
                         ELSE IF t \in DOMAIN h.revokes THEN 2 ELSE 1]
                 ELSE h.revokes,
     expired |-> IF result = "expired_token" /\ op = "validate"
                 THEN h.expired \cup {t} ELSE h.expired]

\* PlaceholderAuthenticator.Verify: an empty DID is refused, any other gets a
\* fresh token stored under p.mu.
Verify(p, did) ==
    /\ authCalls[p].pc = "idle"
    /\ IF did = NoDID
       THEN /\ authHist' = Return(authHist, "verify", NoToken, "invalid_did", NoToken, NoDID)
            /\ UNCHANGED <<tokens, tokenSeq>>
       ELSE /\ tokenSeq < MaxTokens
            /\ tokenSeq' = tokenSeq + 1
            /\ tokens' = PutToken(tokens, tokenSeq', NewClaims(did, now, tokenSeq'))
            /\ authHist' = Return(authHist, "verify", NoToken, "ok", tokenSeq', did)
    /\ UNCHANGED <<authCalls, hubVars, panicked, pumpVars, engVars, histVars, msVars,
                   lifeVars>>

\* ValidateToken, first half: the lookup under p.mu.RLock.  A token that is not
\* in the table ends the call (and the RefreshToken that made it) with invalid_token.
TokenLookup(p, op, t) ==
    /\ authCalls[p].pc = "idle"
    /\ IF t \in DOMAIN tokens
       THEN /\ authCalls' = [authCalls EXCEPT
                               ![p] = [pc |-> "check", op |-> op, token |-> t, claims |-> tokens[t]]]
            /\ UNCHANGED authHist
       ELSE /\ authHist' = Return(authHist, op, t, "invalid_token", NoToken, NoDID)
            /\ UNCHANGED authCalls
    /\ UNCHANGED <<tokens, tokenSeq, hubVars, panicked, pumpVars, engVars, histVars, msVars,
                   lifeVars>>

\* ValidateToken, second half: the claims read before are tested against the
\* clock; an expired token is deleted under p.mu.Lock.
ValidateCheck(p) ==
    /\ authCalls[p].pc = "check"
    /\ authCalls[p].op = "validate"
    /\ LET t == authCalls[p].token
       IN  IF IsExpiredClaims(authCalls[p].claims, now)
           THEN /\ tokens' = AfterExpiry(tokens, t)
                /\ authHist' = Return(authHist, "validate", t, "expired_token", NoToken, NoDID)
           ELSE /\ authHist' = Return(authHist, "validate", t, "ok", NoToken, NoDID)
                /\ UNCHANGED tokens
    /\ authCalls' = [authCalls EXCEPT ![p] = IdleCall]
    /\ UNCHANGED <<tokenSeq, hubVars, panicked, pumpVars, engVars, histVars, msVars,
                   lifeVars>>

\* RefreshToken once its ValidateToken has the claims: an expired token ends the
\* call as in ValidateToken; otherwise a token id is generated and the new
\* claims are built from the old ones and the clock.
RefreshCheck(p) ==
    /\ authCalls[p].pc = "check"
    /\ authCalls[p].op = "refresh"
    /\ LET t == authCalls[p].token
       IN  IF IsExpiredClaims(authCalls[p].claims, now)
           THEN /\ tokens' = AfterExpiry(tokens, t)
                /\ authHist' = Return(authHist, "refresh", t, "expired_token", NoToken, NoDID)
                /\ authCalls' = [authCalls EXCEPT ![p] = IdleCall]
                /\ UNCHANGED tokenSeq
           ELSE /\ tokenSeq < MaxTokens
                /\ tokenSeq' = tokenSeq + 1
                /\ authCalls' = [authCalls EXCEPT
                                   ![p].pc = "store",
                                   ![p].claims = NewClaims(@.DID, now, tokenSeq')]
                /\ UNCHANGED <<tokens, authHist>>
    /\ UNCHANGED <<hubVars, panicked, pumpVars, engVars, histVars, msVars,
                   lifeVars>>

\* RefreshToken, last part: the old token is replaced by the new one under p.mu.Lock.
RefreshStore(p) ==
    /\ authCalls[p].pc = "store"
    /\ tokens' = RefreshSwap(tokens, authCalls[p].token, authCalls[p].claims)
    /\ authHist' = Return(authHist, "refresh", authCalls[p].token, "ok",
                          authCalls[p].claims.TokenID, authCalls[p].claims.DID)
    /\ authCalls' = [authCalls EXCEPT ![p] = IdleCall]
    /\ UNCHANGED <<tokenSeq, hubVars, panicked, pumpVars, engVars, histVars, msVars,
                   lifeVars>>

\* PlaceholderAuthenticator.RevokeToken, all of it under p.mu.Lock.
RevokeToken(p, t) ==
    /\ authCalls[p].pc = "idle"
    /\ tokens' = IF RevokeResult(tokens, t) = "ok" THEN DeleteToken(tokens, t) ELSE tokens
    /\ authHist' = Return(authHist, "revoke", t, RevokeResult(tokens, t), NoToken, NoDID)
    /\ UNCHANGED <<tokenSeq, authCalls, hubVars, panicked, pumpVars, engVars, histVars, msVars,
                   lifeVars>>

\* The clock advances.
Tick ==
    /\ now < StartTime + MaxTicks
    /\ now' = now + 1
    /\ UNCHANGED <<hubVars, panicked, pumpVars, engClients, store, authState, histVars,
                   libVars>>

AuthNext ==
    \/ \E p \in Procs : \E did \in AuthDIDs(tokenSeq) : Verify(p, did)
    \/ \E p \in Procs : \E t \in KnownTokens : TokenLookup(p, "validate", t)
    \/ \E p \in Procs : \E t \in KnownTokens : TokenLookup(p, "refresh", t)
    \/ \E p \in Procs : ValidateCheck(p)
    \/ \E p \in Procs : RefreshCheck(p)
    \/ \E p \in Procs : RefreshStore(p)
    \/ \E p \in Procs : \E t \in KnownTokens : RevokeToken(p, t)
    \/ Tick

\* The placeholder authenticator under concurrent callers and a running clock.
SpecAuth == Init /\ [][AuthNext]_vars

\* ------------------------------------------------------------- memory store
\* The ids, messages and retentions the callers of the store use.  Two messages
\* share each id, so that an overwrite shows.
StoreIDs == {"m1", "m2"}
StoreMessages ==
    {Message(id, "request", AgentDID(c), RelayDID, "none", 0, 0) :
        id \in StoreIDs, c \in HubConns}
StoreTTLs == {-1, 0, 1}

\* !stored.expiry.IsZero() && time.Now().After(stored.expiry): Save sets the
\* zero expiry for a ttl that is not positive, time.Now().Add(ttl) otherwise.
EntryExpired(e, t) == e.ttl > 0 /\ t > e.savedAt + e.ttl

\* delete(ms.messages, id)
Delete(st, id) == [x \in DOMAIN st \ {id} |-> st[x]]

\* What Get answers for id on store st at time t.
GetResult(st, id, t) ==
    IF id \in DOMAIN st /\ ~EntryExpired(st[id], t) THEN st[id].message ELSE NilMessage

\* A Get that removes whatever it finds under the id once it has the write lock.
GetRemoveUnchecked(st, id, t) == Delete(st, id)
\* A Get that leaves the expired entry where it is.
GetRemoveNothing(st, id, t) == st
\* Get under the write lock: the entry is looked up again and deleted only if
\* it still exists and is still expired.
GetRemoveEntry(st, id, t) ==
    IF id \in DOMAIN st /\ EntryExpired(st[id], t) THEN Delete(st, id) ELSE st

\* List: the messages of the entries that have not expired, and the store
\* without the expired ones.
ListResult(st, t) == {st[x].message : x \in {y \in DOMAIN st : ~EntryExpired(st[y], t)}}
AfterList(st, t) == [x \in {y \in DOMAIN st : ~EntryExpired(st[y], t)} |-> st[x]]

\* ms.mutex is a sync.RWMutex: Lock waits while a Get holds the read lock,
\* and any number of Gets hold the read lock together.
ReadLocked == \E p \in Procs : storeCalls[p].pc = "found"

\* MemoryStore.Save, all of it under ms.mutex.Lock.  storeHist keeps, per id,
\* the entry of the last Save that no Delete followed.
SaveCall(m, d) ==
    /\ ~ReadLocked
    /\ store' = Save(store, m, d, now)
    /\ storeHist' = Save(storeHist, m, d, now)
    /\ storeLast' = StoreReturn("save", m.ID, <<>>, m.ID \in DOMAIN store)
    /\ UNCHANGED <<storeCalls, hubVars, panicked, pumpVars, engClients, authState, now,
                   histVars, authVars, lifeVars>>

\* MemoryStore.Get under ms.mutex.RLock, up to the reading of the clock: a
\* missing id ends the call; for an expired entry the read lock is released to
\* take the write lock; a live entry is what the call is going to return.
GetLookup(p, id) ==
    /\ storeCalls[p].pc = "idle"
    /\ storeCalls' = [storeCalls EXCEPT ![p] =
            IF id \notin DOMAIN store
            THEN IdleGet
            ELSE IF EntryExpired(store[id], now)
            THEN GetCall("upgrade", id, store[id], NilMessage, TRUE)
            ELSE GetCall("found", id, NilMessage, GetResult(store, id, now), FALSE)]
    /\ storeLast' = IF id \notin DOMAIN store
                    THEN StoreReturn("get", id, <<>>, FALSE)
                    ELSE storeLast
    /\ UNCHANGED <<store, storeHist, hubVars, panicked, pumpVars, engClients, authState,
                   now, histVars, authVars, lifeVars>>

\* MemoryStore.Get for a live entry: msg := stored.message, RUnlock, return.
GetReturn(p) ==
    /\ storeCalls[p].pc = "found"
    /\ storeCalls' = [storeCalls EXCEPT ![p] = IdleGet]
    /\ storeLast' = StoreReturn("get", storeCalls[p].id, <<storeCalls[p].ret>>, FALSE)
    /\ UNCHANGED <<store, storeHist, hubVars, panicked, pumpVars, engClients, authState,
                   now, histVars, authVars, lifeVars>>

\* MemoryStore.Get under ms.mutex.Lock, then return nil, nil.
GetRemove(p) ==
    /\ storeCalls[p].pc = "upgrade"
    /\ ~ReadLocked
    /\ store' = GetRemoveEntry(store, storeCalls[p].id, now)
    /\ storeCalls' = [storeCalls EXCEPT ![p] = IdleGet]
    /\ storeLast' = StoreReturn("get", storeCalls[p].id, <<>>, TRUE)
    /\ UNCHANGED <<storeHist, hubVars, panicked, pumpVars, engClients, authState, now,
                   histVars, authVars, lifeVars>>

\* The error Delete returns: nil, whether or not the id is in the map.
DeleteResultMissing(st, id) == IF id \in DOMAIN st THEN "nil" ELSE "not found"
DeleteResult(st, id) == "nil"

\* MemoryStore.Delete, all of it under ms.mutex.Lock.
DeleteCall(id) ==
    /\ ~ReadLocked
    /\ store' = Delete(store, id)
    /\ storeHist' = Delete(storeHist, id)
    /\ storeLast' = [StoreReturn("delete", id, <<>>, id \in DOMAIN store)
                        EXCEPT !.err = DeleteResult(store, id)]
    /\ UNCHANGED <<storeCalls, hubVars, panicked, pumpVars, engClients, authState, now,
                   histVars, authVars, lifeVars>>

\* The loop of List over the map in the order ord, from position i on: an
\* expired entry is deleted from the map st, the message of any other entry is
\* appended to the result acc.
RECURSIVE ListLoopKeepingExpired(_, _, _, _, _)
RECURSIVE ListLoop(_, _, _, _, _)
ListLoopKeepingExpired(st, ord, i, acc, t) ==
    IF i > Len(ord) THEN [messages |-> st, result |-> acc]
    ELSE ListLoopKeepingExpired(st, ord, i + 1, Append(acc, st[ord[i]].message), t)
ListLoop(st, ord, i, acc, t) ==
    IF i > Len(ord) THEN [messages |-> st, result |-> acc]
    ELSE IF EntryExpired(st[ord[i]], t)
         THEN ListLoop(Delete(st, ord[i]), ord, i + 1, acc, t)
         ELSE ListLoop(st, ord, i + 1, Append(acc, st[ord[i]].message), t)

\* MemoryStore.List, all of it under ms.mutex.Lock; the clock is read once.
ListCall ==
    /\ ~ReadLocked
    /\ \E ord \in Orderings(DOMAIN store) :
          LET run == ListLoop(store, ord, 1, <<>>, now)
          IN  /\ store' = run.messages
              /\ storeLast' = StoreReturn("list", "", run.result,
                                          DOMAIN run.messages # DOMAIN store)
    /\ UNCHANGED <<storeCalls, storeHist, hubVars, panicked, pumpVars, engClients,
                   authState, now, histVars, authVars, lifeVars>>

StoreNext ==
    \/ \E m \in StoreMessages : \E d \in StoreTTLs : SaveCall(m, d)
    \/ \E p \in Procs : \E id \in StoreIDs : GetLookup(p, id)
    \/ \E p \in Procs : GetReturn(p)
    \/ \E p \in Procs : GetRemove(p)
    \/ \E id \in StoreIDs : DeleteCall(id)
    \/ ListCall
    \/ Tick

\* The in-memory store under concurrent callers and a running clock.
SpecStore == Init /\ [][StoreNext]_vars

\* ------------------------------------------------------- relay life cycle
\* RelayServer.Start and RelayServer.Stop are called from one goroutine (main
\* calls Start, then Stop on a signal): s.running is a plain bool.  A relay
\* that has been stopped is not started again.

\* The error RelayServer.Start returns, given s.running.
RelayStartResultNil(r) == "nil"
RelayStartResult(r) == IF r THEN "server already running" ELSE "nil"

\* RelayServer.Start: on a running server only the error is returned;
\* otherwise a hub is made and started, running is set and the cleanup loop
\* is spawned.
RelayStart ==
    /\ panicked = "none"
    /\ srvStopPc = "idle"
    /\ srvRunning \/ ~srvCtxDone
    /\ relayRet' = RelayReturn("start", RelayStartResult(srvRunning))
    /\ IF RelayStartResult(srvRunning) # "nil"
       THEN UNCHANGED <<running, hubPc, startRet, srvRunning, cleanupLoops, hubsMade>>
       ELSE /\ hubsMade' = hubsMade + 1
            /\ running' = TRUE
            /\ hubPc' = "running"
            /\ startRet' = StartReturn("nil", FALSE)
            /\ srvRunning' = TRUE
            /\ cleanupLoops' = cleanupLoops + 1
    /\ UNCHANGED <<clients, sendChan, chanClosed, chanCloses, closed, connCloses,
                   ctxDone, stopPc, panicked, pumpVars, engVars, histVars, authVars,
                   msVars, srvCtxDone, srvStopPc, wireVars>>

\* RelayServer.Stop, first part: nil on a server that is not running;
\* otherwise s.cancel() and the call of s.wsServer.Stop().
RelayStop ==
    /\ panicked = "none"
    /\ srvStopPc = "idle"
    /\ IF ~srvRunning
       THEN /\ relayRet' = RelayReturn("stop", "nil")
            /\ UNCHANGED <<srvCtxDone, srvStopPc>>
       ELSE /\ srvCtxDone' = TRUE
            /\ srvStopPc' = "hub"
            /\ UNCHANGED relayRet
    /\ UNCHANGED <<hubVars, panicked, pumpVars, engVars, histVars, authVars, msVars,
                   startRet, srvRunning, cleanupLoops, hubsMade, wireVars>>

\* s.wsServer.Stop() as RelayServer.Stop calls it.
RelayStopHub == srvStopPc = "hub" /\ (StopCancel \/ StopCloseClients \/ StopWait)

\* RelayServer.Stop: s.wsServer.Stop() has returned.
RelayStopHubReturned ==
    /\ srvStopPc = "hub"
    /\ stopPc = "idle"
    /\ ~running
    /\ srvStopPc' = "wait"
    /\ UNCHANGED <<hubVars, panicked, pumpVars, engVars, histVars, authVars, msVars,
                   startRet, srvRunning, srvCtxDone, cleanupLoops, hubsMade, relayRet,
                   wireVars>>

\* RelayServer.Stop, last part: s.wg.Wait() for the cleanup loop, running = false.
RelayStopWait ==
    /\ srvStopPc = "wait"
    /\ cleanupLoops = 0
    /\ srvRunning' = FALSE
    /\ srvStopPc' = "idle"
    /\ relayRet' = RelayReturn("stop", "nil")
    /\ UNCHANGED <<hubVars, panicked, pumpVars, engVars, histVars, authVars, msVars,
                   startRet, srvCtxDone, cleanupLoops, hubsMade, wireVars>>

\* client.LastActivity.Before(cutoff) with cutoff := time.Now().Add(-5 * time.Minute)
Inactive(rec, t) == rec.LastActivity < t - InactiveTimeout

\* What cleanupInactiveClients leaves of the client table at time t.
AfterCleanup(tbl, t) == [x \in {y \in DOMAIN tbl : ~Inactive(tbl[y], t)} |-> tbl[x]]

\* cleanupLoop, case <-ticker.C: cleanupInactiveClients, all of it under
\* s.clientsMu.Lock.  The records are deleted; nothing else is touched.
CleanupRun ==
    /\ panicked = "none"
    /\ cleanupLoops > 0
    /\ engClients' = AfterCleanup(engClients, now)
    /\ UNCHANGED <<hubVars, panicked, pumpVars, store, authState, now, histVars, libVars>>

\* cleanupLoop, case <-s.ctx.Done(): the loop returns.
CleanupExit ==
    /\ cleanupLoops > 0
    /\ srvCtxDone
    /\ cleanupLoops' = cleanupLoops - 1
    /\ UNCHANGED <<hubVars, panicked, pumpVars, engVars, histVars, authVars, msVars,
                   startRet, srvRunning, srvCtxDone, srvStopPc, hubsMade, relayRet,
                   wireVars>>

\* Frames that only make their connection active.
ActivityFrames(c) == OtherFrames(c)

RelayNext ==
    \/ RelayStart
    \/ RelayStop
    \/ RelayStopHub
    \/ RelayStopHubReturned
    \/ RelayStopWait
    \/ HubExit
    \/ CleanupRun
    \/ CleanupExit
    \/ \E c \in HubConns : Connect(c)
    \/ \E c \in HubConns : HubRegister(c)
    \/ \E c \in HubConns : \E f \in ActivityFrames(c) : ReadFrame(c, f, TRUE, "nil")
    \/ Tick

\* The relay server from construction to shutdown, with its cleanup loop.
SpecRelay == Init /\ [][RelayNext]_vars

\* ---------------------------------------------------- RFC-002 handshake
\* The replay window of HandleAuth, in seconds; the clock is read in seconds.
AuthWindow == 300
\* NewWebSocketAuthHandler: DefaultMaxMsgSize, 1 MiB.
DefaultMaxMsgSize == 1048576

\* The JSON auth frames a peer sends, and a frame that is not JSON.
AuthFrame(type, did, ts, max) ==
    [kind |-> "json", Type |-> type, DID |-> did, Timestamp |-> ts, MaxMsgSize |-> max]
AuthStamps == {StartTime + d : d \in {0 - AuthWindow - 1, 0 - AuthWindow, 0, AuthWindow, AuthWindow + 1}}
AuthFrames(c) ==
    {MalformedFrame, AuthFrame("message", AgentDID(c), StartTime, 0)}
    \cup {AuthFrame("auth", AgentDID(c), ts, 0) : ts \in AuthStamps}
    \cup {AuthFrame("auth", NoDID, ts, 0) : ts \in {StartTime, StartTime + AuthWindow + 1}}
    \cup {AuthFrame("auth", AgentDID(c), StartTime, max) :
            max \in {-1, 1, 1024, DefaultMaxMsgSize - 1, DefaultMaxMsgSize,
                     DefaultMaxMsgSize + 1}}

\* A negotiation that always answers the size of the server.
NegotiatedMaxOfServer(req, srv) == srv
\* negotiatedMax := h.DefaultMaxMsgSize; the size the client declares replaces
\* it when it is positive and smaller.
NegotiatedMax(req, srv) == IF req > 0 /\ req < srv THEN req ELSE srv

AuthFail(code, t) ==
    [Type |-> "auth_fail", ErrorCode |-> code, MaxMsgSize |-> 0, Timestamp |-> t]

\* A HandleAuth whose replay window is open at both ends.
HandleAuthResultOpenWindow(f, t) ==
    IF f.kind # "json" THEN AuthFail("invalid_format", t)
    ELSE IF f.Type # "auth" THEN AuthFail("invalid_type", t)
    ELSE IF f.DID = "" THEN AuthFail("invalid_did", t)
    ELSE IF f.Timestamp <= t - AuthWindow \/ f.Timestamp >= t + AuthWindow
         THEN AuthFail("invalid_timestamp", t)
    ELSE [Type |-> "auth_ok", ErrorCode |-> "", Timestamp |-> t,
          MaxMsgSize |-> NegotiatedMax(f.MaxMsgSize, DefaultMaxMsgSize)]
\* The AuthResponse of HandleAuth for frame f when the clock reads t: the
\* checks in the order of the code, then the negotiated size.
HandleAuthResult(f, t) ==
    IF f.kind # "json" THEN AuthFail("invalid_format", t)
    ELSE IF f.Type # "auth" THEN AuthFail("invalid_type", t)
    ELSE IF f.DID = "" THEN AuthFail("invalid_did", t)
    ELSE IF f.Timestamp < t - AuthWindow \/ f.Timestamp > t + AuthWindow
         THEN AuthFail("invalid_timestamp", t)
    ELSE [Type |-> "auth_ok", ErrorCode |-> "", Timestamp |-> t,
          MaxMsgSize |-> NegotiatedMax(f.MaxMsgSize, DefaultMaxMsgSize)]

\* HandleAuth called for connection c with frame f.  It builds the response
\* and touches neither the client it is given nor the hub.
HandleAuth(c, f) ==
    /\ panicked = "none"
    /\ authResp' = [authResp EXCEPT ![c] =
                        [frame |-> f, at |-> now, resp |-> HandleAuthResult(f, now)]]
    /\ UNCHANGED <<hubVars, panicked, pumpVars, engVars, histVars, authVars, msVars,
                   startRet, relayVars, expCall, decodeFailed, mrVars>>

\* --------------------------------------------------------- specifications
HubNext ==
    \/ Start
    \/ \E c \in HubConns : Connect(c)
    \/ \E c \in HubConns : HubRegister(c)
    \/ \E c \in HubConns : HubUnregister(c)
    \/ HubBroadcast
    \/ HubExit
    \/ StopCancel
    \/ StopCloseClients
    \/ StopWait
    \/ \E c \in HubConns : WriteDequeue(c)
    \/ \E c \in HubConns : WriteFail(c)
    \/ \E c \in HubConns : WriteClosed(c)
    \/ \E c \in HubConns : WriteCtxDone(c)
    \/ \E c \in HubConns : ReadError(c)
    \/ \E c \in HubConns : \E f \in HubFrames(c) : ReadFrame(c, f, TRUE, "nil")
    \/ \E c \in HubConns : SendLookup(c)
    \/ \E c \in HubConns : SendEnqueue(c)
    \/ \E c \in HubConns : SendTimeout(c)

\* The transport hub with all its goroutines, under engine traffic.
Spec == Init /\ [][HubNext]_vars

\* The hub under the scheduling of the Go runtime: a goroutine that can take a
\* step takes it in the end.  That holds for the dispatcher, for a caller of
\* Stop, for the write loops, for the sends of a running handler, and for a
\* read loop whose socket has been closed (its ReadMessage fails).  Nothing
\* is assumed of the peers: a new connection, a frame, a broadcast or a read
\* error on an open socket may never come.
\* Conn.Close() has run on the socket of the connection, from Client.Close or
\* from the deferred function of a pump: ReadMessage fails from then on, once
\* the frames already received are read.
SocketClosed(c) == closed[c] \/ connCloses[c].byPump > 0

HubFairness ==
    /\ WF_vars(HubExit)
    /\ WF_vars(StopCloseClients)
    /\ WF_vars(StopWait)
    /\ \A c \in HubConns :
          /\ WF_vars(HubRegister(c))
          /\ WF_vars(HubUnregister(c))
          /\ WF_vars(WriteDequeue(c))
          /\ WF_vars(WriteClosed(c))
          /\ WF_vars(WriteCtxDone(c))
          /\ WF_vars(SendLookup(c))
          /\ WF_vars(SendEnqueue(c) \/ SendTimeout(c))
          /\ SF_vars(SocketClosed(c) /\ ReadError(c))
SpecHubFair == Init /\ [][HubNext]_vars /\ HubFairness

\* The hub while it runs: connections come, exchange frames, fail and are
\* closed; nobody calls Stop.
RunningHubNext ==
    \/ Start
    \/ \E c \in HubConns : Connect(c)
    \/ \E c \in HubConns : HubRegister(c)
    \/ \E c \in HubConns : HubUnregister(c)
    \/ HubBroadcast
    \/ \E c \in HubConns : WriteDequeue(c)
    \/ \E c \in HubConns : WriteFail(c)
    \/ \E c \in HubConns : WriteClosed(c)
    \/ \E c \in HubConns : ReadError(c)
    \/ \E c \in HubConns : \E f \in HubFrames(c) : ReadFrame(c, f, TRUE, "nil")
    \/ \E c \in HubConns : SendLookup(c)
    \/ \E c \in HubConns : SendEnqueue(c)
    \/ \E c \in HubConns : SendTimeout(c)

SpecRunningHub == Init /\ [][RunningHubNext]_vars /\ HubFairness

\* The state after Start and the upgrade of every connection of Conns: all are
\* registered with the hub, their pumps run, and none has sent a frame yet.
InitConnected ==
    /\ clients = Conns
    /\ sendChan = [c \in Conns |-> <<>>]
    /\ chanClosed = [c \in Conns |-> FALSE]
    /\ chanCloses = [c \in Conns |-> 0]
    /\ closed = [c \in Conns |-> FALSE]
    /\ connCloses = [c \in Conns |-> [byClose |-> 0, byPump |-> 0]]
    /\ ctxDone = FALSE
    /\ running = TRUE
    /\ hubPc = "running"
    /\ stopPc = "idle"
    /\ panicked = "none"
    /\ rp = [c \in Conns |-> "reading"]
    /\ wp = [c \in Conns |-> "running"]
    /\ work = [c \in Conns |-> <<>>]
    /\ engClients = <<>>
    /\ store = <<>>
    /\ authState = [c \in Conns |-> "NEW"]
    /\ now = StartTime
    /\ handlerCalled = [c \in Conns |-> FALSE]
    /\ log = <<>>
    /\ LibInit
    /\ expCall = NoExpiry

\* Connections are interchangeable, so one of them, Sender, sends the requests
\* and events; the others send only frames that make them known to the engine.
Sender == "c1"
EngineFrames(c) == IF c = Sender THEN Frames(c) ELSE OtherFrames(c)

EngineNext ==
    \/ \E c \in Conns : HubUnregister(c)
    \/ \E c \in Conns : WriteDequeue(c)
    \/ \E c \in Conns : ReadError(c)
    \/ \E c \in Conns : \E f \in EngineFrames(c) : \E saveOk \in BOOLEAN :
            \E hres \in HandlerResults : ReadFrame(c, f, saveOk, hres)
    \/ \E c \in Conns : SendLookup(c)
    \/ \E c \in Conns : SendEnqueue(c)

\* The relay engine routing every kind of frame, over a running hub.
SpecEngine == InitConnected /\ [][EngineNext]_vars

\* Client tables whose records carry a DID (records are written this way by the
\* code of the server package that fills s.clients directly): c2 is bound to its
\* agent's DID, each other connection to its own agent's DID or to that of c2,
\* and no two connections were made at the same instant.
SharedDID == AgentDID("c2")
BoundTables ==
    {tbl \in [Conns -> [ID : Conns, DID : {AgentDID(c) : c \in Conns},
                        ConnectedAt : 0..StartTime, LastActivity : 0..StartTime]] :
        /\ \A c \in Conns : /\ tbl[c].ID = c
                             /\ tbl[c].DID \in {AgentDID(c), SharedDID}
                             /\ tbl[c].LastActivity = tbl[c].ConnectedAt
        /\ \A c, d \in Conns : c # d => tbl[c].ConnectedAt # tbl[d].ConnectedAt}

\* The running relay of InitConnected with such a client table.
InitBound ==
    /\ clients = Conns
    /\ sendChan = [c \in Conns |-> <<>>]
    /\ chanClosed = [c \in Conns |-> FALSE]
    /\ chanCloses = [c \in Conns |-> 0]
    /\ closed = [c \in Conns |-> FALSE]
    /\ connCloses = [c \in Conns |-> [byClose |-> 0, byPump |-> 0]]
    /\ ctxDone = FALSE
    /\ running = TRUE
    /\ hubPc = "running"
    /\ stopPc = "idle"
    /\ panicked = "none"
    /\ rp = [c \in Conns |-> "reading"]
    /\ wp = [c \in Conns |-> "running"]
    /\ work = [c \in Conns |-> <<>>]
    /\ engClients \in BoundTables
    /\ store = <<>>
    /\ authState = [c \in Conns |-> "NEW"]
    /\ now = StartTime
    /\ handlerCalled = [c \in Conns |-> FALSE]
    /\ log = <<>>
    /\ LibInit
    /\ expCall = NoExpiry

\* Requests addressed to the DID that several connections may carry.
AddressedFrames(c) ==
    {CBORMarshal(Message(id, "request", AgentDID(c), SharedDID, act, 0, 0)) :
        id \in MsgIDs, act \in {"echo", "none"}}

ForwardNext ==
    \/ \E c \in Conns : \E f \in AddressedFrames(c) : ReadFrame(c, f, TRUE, "nil")
    \/ \E c \in Conns : SendLookup(c)
    \/ \E c \in Conns : SendEnqueue(c)
    \/ \E c \in Conns : WriteDequeue(c)

\* Addressed requests routed over a client table that carries DIDs.
SpecForward == InitBound /\ [][ForwardNext]_vars


\* ----------------------------------------------------------- message relay
\* MessageRelay.Register and MessageRelay.Unregister, each under r.mu.Lock.
Register(tbl, did, t) == [x \in DOMAIN tbl \cup {did} |-> IF x = did THEN t ELSE tbl[x]]
Unregister(tbl, did) == [x \in DOMAIN tbl \ {did} |-> tbl[x]]

\* WSTransport.Send: an error on a closed transport, else what WriteMessage returns.
Send(t, werr) == IF isClosed[t] THEN "transport closed" ELSE werr

\* MessageRelay.Forward: the lookup under r.mu.RLock, then target.Send.
Forward(tbl, to, werr) ==
    IF to \notin DOMAIN tbl
    THEN ForwardReturn(to, "none", "not found")
    ELSE ForwardReturn(to, tbl[to], Send(tbl[to], werr))

\* MessageRelay.Start(t), up to its loop: r.Register(t.LocalDID(), t).
MessageRelayStart(t) ==
    /\ loopPc[t] = "idle"
    /\ transports' = Register(transports, LocalDID(t), t)
    /\ loopPc' = [loopPc EXCEPT ![t] = "receiving"]
    /\ UNCHANGED <<isClosed, fwdRet, hubVars, panicked, pumpVars, engVars, histVars,
                   authVars, msVars, startRet, relayVars, authResp, expCall, decodeFailed>>

\* One round of the loop: t.Receive returns a message, r.Forward sends it on.
MessageRelayReceive(t, to, werr) ==
    /\ loopPc[t] = "receiving"
    /\ fwdRet' = Forward(transports, to, werr)
    /\ UNCHANGED <<transports, isClosed, loopPc, hubVars, panicked, pumpVars, engVars,
                   histVars, authVars, msVars, startRet, relayVars, authResp, expCall,
                   decodeFailed>>

\* t.Receive returns an error: the loop breaks and the deferred
\* r.Unregister(t.LocalDID()) runs.
MessageRelayExit(t) ==
    /\ loopPc[t] = "receiving"
    /\ transports' = Unregister(transports, LocalDID(t))
    /\ loopPc' = [loopPc EXCEPT ![t] = "done"]
    /\ UNCHANGED <<isClosed, fwdRet, hubVars, panicked, pumpVars, engVars, histVars,
                   authVars, msVars, startRet, relayVars, authResp, expCall, decodeFailed>>

\* WSTransport.Close: isClosed is set (and the connection closed) once.
TransportClose(t) ==
    /\ isClosed' = [isClosed EXCEPT ![t] = TRUE]
    /\ UNCHANGED <<transports, loopPc, fwdRet, hubVars, panicked, pumpVars, engVars,
                   histVars, authVars, msVars, startRet, relayVars, authResp, expCall,
                   decodeFailed>>

MessageRelayNext ==
    \/ \E t \in Transports : MessageRelayStart(t)
    \/ \E t \in Transports : \E to \in RelayDIDs : \E werr \in {"nil", "write error"} :
          MessageRelayReceive(t, to, werr)
    \/ \E t \in Transports : MessageRelayExit(t)
    \/ \E t \in Transports : TransportClose(t)

SpecMessageRelay == Init /\ [][MessageRelayNext]_vars

\* ------------------------------------------------------- message expiry
\* Ts and TTL are any uint64; time.Now().UnixMilli() is an int64 that is not
\* negative, so uint64(now) is below half the word.
ExpiryInputs ==
    {ExpiryCall(ts, ttl, at) :
        ts \in 0 .. UintMod - 1, ttl \in 0 .. UintMod - 1, at \in 0 .. UintMod \div 2 - 1}

InitExpiry == InitButExpiry /\ expCall \in ExpiryInputs

\* m.IsExpired() on the message of the call.
IsExpiredCall ==
    /\ ~expCall.done
    /\ expCall' = [expCall EXCEPT
                      !.done = TRUE,
                      !.ret = IsExpired([Timestamp |-> expCall.Ts, TTL |-> expCall.TTL],
                                        expCall.at)]
    /\ UNCHANGED <<hubVars, panicked, pumpVars, engVars, histVars, authVars, msVars,
                   startRet, relayVars, authResp, decodeFailed, mrVars>>

ExpiryNext == IsExpiredCall

SpecExpiry == InitExpiry /\ [][ExpiryNext]_vars


HandshakeNext ==
    \/ \E f \in AuthFrames(Sender) : HandleAuth(Sender, f)
    \/ \E f \in ActivityFrames(Sender) : ReadFrame(Sender, f, TRUE, "nil")
    \/ Tick

\* Handshake frames and other frames arriving on one connection of a running
\* relay (connections are interchangeable).
SpecHandshake == InitConnected /\ [][HandshakeNext]_vars

\* ------------------------------------------------------------------ claims
Pending(id) == {t \in UNION {{work[c][i] : i \in DOMAIN work[c]} : c \in Conns} : t.id = id}

\* C1: no producer ever sends on a connection's send queue after the queue has
\* been closed: SendToClient either enqueues before the close or returns false.
C1_NoSendOnClosedQueue == panicked # "send on closed channel"

\* C2: every connection's send queue is closed exactly once: never twice, and
\* not left open once the connection has ended (its read pump has finished).
C2_QueueClosedExactlyOnce ==
    \A c \in Conns :
        /\ chanCloses[c] <= 1
        /\ rp[c] = "done" => chanCloses[c] = 1

\* C3: over any interleaving of Close calls and pump exits the underlying
\* socket of a connection is closed at most once.
C3_SocketClosedOnce ==
    \A c \in Conns : connCloses[c].byClose + connCloses[c].byPump <= 1

\* C4: the message handler is invoked for a frame of a connection only after
\* the connection has completed the admission handshake.
C4_HandlerOnlyAfterAdmission ==
    \A c \in Conns : handlerCalled[c] => authState[c] = "AUTHENTICATED"

\* C5: a forward of a message, attempted or still to be made, is preceded by a
\* successful Save of that very message.
C5_SaveBeforeForward ==
    \A id \in DOMAIN log :
        (log[id].tried # {} \/ \E t \in Pending(id) : t.kind = "forward")
            => /\ log[id].saved
               /\ id \in DOMAIN store
               /\ store[id].message = log[id].msg

C5_Witness ==
    \E id \in DOMAIN log : log[id].saved /\ log[id].tried # {} /\ log[id].returned

\* C6: when the forward of a message fails (no connection for the destination,
\* a connection the hub does not know, or a queue that stays full) the message
\* is in the store and no error response for it is sent to the sender.
C6_ForwardFailureIsSilent ==
    \A id \in DOMAIN log :
        (log[id].notFound \/ log[id].failed # {})
            => /\ id \in DOMAIN store
               /\ store[id].message = log[id].msg
               /\ log[id].errs = {}
               /\ \A t \in Pending(id) : t.kind # "error"

C6_Witness ==
    \E id \in DOMAIN log :
        /\ log[id].msg.Type = "request"
        /\ log[id].msg.Destination = "did:c2"
        /\ log[id].notFound
        /\ log[id].returned

\* C7: when Save fails for a received request or event, the sender is sent an
\* error response with code storage_error and the message is neither forwarded
\* nor dispatched.
C7_StorageErrorReported ==
    \A id \in DOMAIN log :
        ~log[id].saved
            => /\ "storage_error" \in log[id].errs
               /\ log[id].tried = {}
               /\ ~log[id].dispatched

\* C8: a message that is expired when received is neither saved nor forwarded.
C8_ExpiredDiscarded ==
    \A id \in DOMAIN log :
        log[id].expired
            => /\ ~log[id].saved
               /\ id \notin DOMAIN store
               /\ log[id].tried = {}
               /\ Pending(id) = {}

\* C9: a message whose from differs from the DID of the connection it arrived
\* on is rejected with identity_mismatch: not stored, not forwarded, not dispatched.
C9_IdentityMismatchRejected ==
    \A id \in DOMAIN log :
        log[id].msg.Source # AgentDID(log[id].conn)
            => /\ "identity_mismatch" \in log[id].errs
               /\ ~log[id].saved
               /\ log[id].tried = {}
               /\ ~log[id].dispatched

C11_BroadcastSlowConsumer ==
    [][HubBroadcast =>
        \A c \in clients :
            IF Len(sendChan[c]) >= SendChanCap
            THEN closed'[c] /\ connCloses'[c].byClose = 1 /\ sendChan'[c] = sendChan[c]
            ELSE sendChan'[c] = Append(sendChan[c], BroadcastFrame)]_vars

\* A slow consumer was closed by a broadcast that reached another connection.
C11_Witness ==
    /\ ~ctxDone
    /\ \E c, d \in clients :
          /\ c # d
          /\ closed[c]
          /\ Len(sendChan[c]) >= SendChanCap
          /\ sendChan[d] # <<>>
          /\ sendChan[d][Len(sendChan[d])] = BroadcastFrame

\* C12: a saved request that matches a registered action and names a remote
\* recipient is dispatched to the handler and also handed to forwardMessage,
\* whether the handler returns a response or nothing.
C12_DispatchedAndForwarded ==
    \A id \in DOMAIN log :
        (/\ log[id].msg.Type = "request"
         /\ log[id].msg.Action \in Routes
         /\ log[id].msg.Destination \notin {"", RelayDID}
         /\ log[id].saved
         /\ "handler_error" \notin log[id].errs)
            => /\ log[id].dispatched
               /\ \/ log[id].notFound
                  \/ log[id].tried # {}
                  \/ \E t \in Pending(id) : t.kind = "forward"

\* C13: the message a handler returns for a request is sent to the connection
\* the request came from, with type response and its correlation id (reply_to)
\* set to the id of the request.
C13_ResponseToRequester ==
    /\ \A c \in Conns : \A i \in DOMAIN work[c] :
          work[c][i].kind = "response"
            => /\ work[c][i].to = c
               /\ log[work[c][i].id].conn = c
               /\ work[c][i].frame.msg.Type = "response"
               /\ work[c][i].frame.msg.CorrelationID = work[c][i].id
    /\ \A c \in Conns : \A i \in DOMAIN sendChan[c] :
          (/\ sendChan[c][i].kind = "cbor"
           /\ sendChan[c][i].msg.ID = "gen"
           /\ sendChan[c][i].msg.Type # "error")
            => /\ sendChan[c][i].msg.Type = "response"
               /\ sendChan[c][i].msg.CorrelationID \in DOMAIN log
               /\ log[sendChan[c][i].msg.CorrelationID].conn = c
               /\ log[sendChan[c][i].msg.CorrelationID].dispatched

\* The response to request m1 sits in the send queue of the requester.
C13_Witness ==
    \E c \in Conns : \E i \in DOMAIN sendChan[c] :
        /\ sendChan[c][i].kind = "cbor"
        /\ sendChan[c][i].msg.Type = "response"
        /\ sendChan[c][i].msg.CorrelationID = "m1"
        /\ log["m1"].conn = c
        /\ log["m1"].returned

C15_OneRefreshPerToken ==
    \A t \in DOMAIN authHist.issued :
        Cardinality({pr \in authHist.refreshed : pr[1] = t}) <= 1

\* C16: when RefreshToken(t) returns t', t' differs from t, t is no longer in the
\* table, so that ValidateToken(t) is an invalid_token, and t' is in the table
\* with the DID t was issued for, so that ValidateToken(t') succeeds within the
\* lifetime of t'.
C16_RefreshReplacesToken ==
    [][\A p \in Procs :
          RefreshStore(p) =>
            LET t == authCalls[p].token
                new == authCalls[p].claims.TokenID
            IN  /\ new # t
                /\ ValidateOutcome(tokens', t, now') = "invalid_token"
                /\ new \in DOMAIN tokens'
                /\ tokens'[new].DID = authHist.issued[t]
                /\ <<t, new>> \in authHist'.refreshed
                /\ ~IsExpiredClaims(tokens'[new], now')
                      => ValidateOutcome(tokens', new, now') = "ok"]_vars

\* A refresh has returned and its new token is valid.
C16_Witness ==
    \E pr \in authHist.refreshed :
        /\ pr[1] \notin DOMAIN tokens
        /\ ValidateOutcome(tokens, pr[2], now) = "ok"
        /\ tokens[pr[2]].DID = authHist.issued[pr[1]]

\* The state part of C17.
C17_RevokedIsGone ==
    /\ \A t \in DOMAIN authHist.revokes :
          /\ authHist.revokes[t] = 1
          /\ t \in DOMAIN authHist.issued
          /\ t \notin DOMAIN tokens
          /\ RevokeResult(tokens, t) = "invalid_token"
          /\ ValidateOutcome(tokens, t, now) = "invalid_token"
          /\ ValidateOutcome(tokens, t, now) = ValidateOutcome(tokens, NoToken, now)
    /\ \A t \in DOMAIN tokens : RevokeResult(tokens, t) = "ok"
    /\ DOMAIN authHist.issued \subseteq DOMAIN authHist.revokes => DOMAIN tokens = {}

\* C17: RevokeToken on a token of the table succeeds and removes it; the
\* revocation of a token never succeeds twice: a revoked token is not in the
\* table, RevokeToken and ValidateToken answer invalid_token for it as for a
\* token that never existed; when every issued token is revoked the table is empty.
C17_RevokeRemoves ==
    /\ []C17_RevokedIsGone
    /\ [][\A t \in DOMAIN authHist'.revokes \ DOMAIN authHist.revokes :
            /\ t \in DOMAIN tokens
            /\ t \notin DOMAIN tokens'
            /\ authHist'.revokes[t] = 1]_vars

\* Every token issued has been revoked, and there were several.
C17_Witness ==
    /\ Cardinality(DOMAIN authHist.issued) >= 2
    /\ DOMAIN authHist.issued \subseteq DOMAIN authHist.revokes

\* The state part of C18.
C18_ExpiredIsGone ==
    \A t \in authHist.expired :
        /\ t \notin DOMAIN tokens
        /\ ValidateOutcome(tokens, t, now) = "invalid_token"
        /\ RevokeResult(tokens, t) = "invalid_token"

\* C18: a ValidateToken that finds its token expired reports expired_token and
\* leaves the table without it; from then on the token is not in the table, so
\* that ValidateToken, RefreshToken and RevokeToken answer invalid_token.
C18_ExpiredTokenRemoved ==
    /\ []C18_ExpiredIsGone
    /\ [][\A p \in Procs :
            (ValidateCheck(p) /\ IsExpiredClaims(authCalls[p].claims, now))
                => /\ authCalls[p].token \in authHist'.expired
                   /\ authCalls[p].token \notin DOMAIN tokens']_vars

\* A token was reported expired while another token is still valid.
C18_Witness ==
    /\ authHist.expired # {}
    /\ \E t \in DOMAIN tokens : ValidateOutcome(tokens, t, now) = "ok"

\* The state part of C19.
C19_SavedIsHeld ==
    \A id \in DOMAIN storeHist :
        /\ storeHist[id].ttl <= 0 => ~EntryExpired(storeHist[id], now)
        /\ ~EntryExpired(storeHist[id], now)
              => /\ id \in DOMAIN store
                 /\ store[id] = storeHist[id]
                 /\ storeHist[id].message.ID = id
                 /\ GetResult(store, id, now) = storeHist[id].message
                 /\ storeHist[id].message \in ListResult(store, now)

\* C19: after Save(m, d), for as long as no Delete and no other Save of the id
\* followed and the retention d has not elapsed, the store holds the entry, a
\* Get with the id of m returns m and List returns it too; an entry saved with
\* d <= 0 never expires.
C19_SavedIsReturned ==
    /\ []C19_SavedIsHeld
    /\ [][\A p \in Procs :
            /\ (/\ storeCalls[p].pc = "idle"
                 /\ storeCalls'[p] # storeCalls[p]
                 /\ storeCalls'[p].id \in DOMAIN storeHist
                 /\ ~EntryExpired(storeHist[storeCalls'[p].id], now))
                    => /\ storeCalls'[p].pc = "found"
                       /\ storeCalls'[p].ret = storeHist[storeCalls'[p].id].message
            /\ GetReturn(p) => storeLast'.ret = <<storeCalls[p].ret>>]_vars

\* At the end of the run a Get has returned a message saved for good at the
\* start, while another entry has outlived its retention.
C19_Witness ==
    /\ now = StartTime + MaxTicks
    /\ storeLast.op = "get"
    /\ storeLast.id \in DOMAIN store
    /\ store[storeLast.id].ttl <= 0
    /\ store[storeLast.id].savedAt = StartTime
    /\ storeLast.ret = <<store[storeLast.id].message>>
    /\ \E id \in DOMAIN storeHist : EntryExpired(storeHist[id], now)

\* C20 as stated: when a Get that found its entry expired returns, the map of
\* the store does not contain the id.
C20_ExpiredGetRemovesId ==
    [][\A p \in Procs : GetRemove(p) => storeCalls[p].id \notin DOMAIN store']_vars

\* C20, amended: a Get that found its entry expired returns nothing, and when
\* it returns the map holds no expired entry under the id: the id is absent,
\* unless a Save stored a new entry under it after the lookup of the Get, which
\* the Get leaves in place.
C20_ExpiredGetRemovesEntry ==
    [][\A p \in Procs :
          GetRemove(p) =>
            LET id == storeCalls[p].id
            IN  /\ EntryExpired(storeCalls[p].seen, now)
                /\ storeCalls'[p].pc = "idle"
                /\ storeLast' = StoreReturn("get", id, <<>>, TRUE)
                /\ \/ id \notin DOMAIN store'
                   \/ /\ store'[id] # storeCalls[p].seen
                      /\ ~EntryExpired(store'[id], now')
                      /\ store'[id] = storeHist[id]]_vars

\* A Get that found an expired entry has returned nothing and the id is not in
\* the map.
C20_Witness ==
    /\ storeLast = StoreReturn("get", storeLast.id, <<>>, TRUE)
    /\ storeLast.id \notin DOMAIN store
    /\ storeLast.id \in DOMAIN storeHist

\* C21: once a caller's Get has observed an entry as expired, no Get returns
\* the message of that entry afterwards.  Here for an observer that is still
\* inside its Get: no Get returns the message of the entry that is in the map
\* while another caller, having found that very entry expired, waits for the
\* write lock.
C21_NoStaleAfterObserved ==
    [][\A q \in Procs :
          GetReturn(q) =>
            ~\E p \in Procs :
                /\ storeCalls[p].pc = "upgrade"
                /\ storeCalls[p].id = storeCalls[q].id
                /\ storeCalls[p].seen = store[storeCalls[q].id]
                /\ storeCalls[p].seen.message = storeCalls[q].ret]_vars

\* C22: List returns exactly the messages of the entries that are not expired
\* at the time of the call, each once, and after it returns the store holds
\* none of the entries that were expired at that time.
C22_ListReturnsLive ==
    [][ListCall =>
          LET live == {x \in DOMAIN store :
                          ~(store[x].ttl > 0 /\ now > store[x].savedAt + store[x].ttl)}
              ret  == storeLast'.ret
          IN  /\ storeLast'.op = "list"
              /\ {ret[i] : i \in 1..Len(ret)} = {store[x].message : x \in live}
              /\ Len(ret) = Cardinality(live)
              /\ \A x \in DOMAIN store \ live : x \notin DOMAIN store'
              /\ \A x \in live : x \in DOMAIN store' /\ store'[x] = store[x]]_vars

\* A List has returned one message and removed an expired entry; the entry of
\* the other id, saved for a retention that has elapsed, is gone.
C22_Witness ==
    /\ storeLast.op = "list"
    /\ storeLast.hit
    /\ Len(storeLast.ret) = 1
    /\ storeLast.ret[1].ID \in DOMAIN store
    /\ \E id \in DOMAIN storeHist \ DOMAIN store : EntryExpired(storeHist[id], now)

\* C23: Delete of an id always succeeds; after it Get of the id returns
\* nothing; a second Delete of the id, like a Delete of an id that was never
\* saved, succeeds and changes nothing; no Delete changes another entry.
C23_DeleteIdempotent ==
    [][\A id \in StoreIDs :
          DeleteCall(id) =>
            /\ storeLast'.op = "delete" /\ storeLast'.id = id
            /\ storeLast'.err = "nil"
            /\ id \notin DOMAIN store'
            /\ GetResult(store', id, now') = NilMessage
            /\ \A x \in StoreIDs \ {id} :
                  /\ x \in DOMAIN store' <=> x \in DOMAIN store
                  /\ x \in DOMAIN store => store'[x] = store[x]
            /\ DeleteResult(store', id) = "nil"
            /\ Delete(store', id) = store'
            /\ (storeLast = StoreReturn("delete", id, <<>>, TRUE) /\ ~storeLast'.hit)
                  => store' = store]_vars

\* A Delete has removed an entry while the other id keeps its entry.
C23_Witness ==
    /\ storeLast.op = "delete"
    /\ storeLast.hit
    /\ storeLast.id \notin DOMAIN store
    /\ DOMAIN store # {}

\* C24: SendToClient returns true only when the whole frame has been appended
\* to the send queue of the target connection, and returns false, with every
\* queue as it was, when the id is not in the connection table or the queue is
\* full when the enqueue timeout fires.
C24_SendAllOrNothing ==
    [][\A c \in Conns :
          (rp[c] \in {"handling", "sending"} /\ work'[c] # work[c]) =>
            LET t  == Head(work[c])
                ok == <<t.kind, t.to, TRUE>> \in log'[t.id].sent
                unknown == rp[c] = "handling" /\ t.to \notin clients
                full == rp[c] = "sending" /\ Len(sendChan[t.to]) >= SendChanCap
            IN  /\ log'[t.id].sent \ log[t.id].sent \in {{<<t.kind, t.to, b>>} : b \in BOOLEAN}
                /\ ok => /\ sendChan'[t.to] = Append(sendChan[t.to], t.frame)
                         /\ \A d \in Conns \ {t.to} : sendChan'[d] = sendChan[d]
                /\ ~ok => sendChan' = sendChan /\ (unknown \/ full)
                /\ (unknown \/ full) => ~ok]_vars

\* A SendToClient has returned false for a connection that is in the table
\* and whose queue is full of other frames.
C24_Witness ==
    \E id \in DOMAIN log : \E x \in log[id].sent :
        /\ ~x[3]
        /\ x[2] \in clients
        /\ Len(sendChan[x[2]]) = SendChanCap
        /\ \A i \in 1..Len(sendChan[x[2]]) : sendChan[x[2]][i] # CBORMarshal(log[id].msg)

\* C25: once Stop has cancelled the context of a running hub, every read loop,
\* every write loop and the dispatcher exit in the end (a process that has
\* panicked has no unit left); none stays blocked on the hand-off of a
\* connection to the dispatcher.
C25_StopEndsAllUnits ==
    ctxDone ~> \/ panicked # "none"
               \/ /\ hubPc = "exited"
                  /\ \A c \in HubConns : rp[c] \in {"idle", "done"} /\ wp[c] \in {"idle", "done"}

\* C26: a call of Start that finds the hub already started returns an error.
C26_SecondStartIsError == startRet.already => startRet.err # "nil"

C28_CleanupRemovesAndCloses ==
    [][CleanupRun =>
          \A c \in DOMAIN engClients :
              IF engClients[c].LastActivity < now - InactiveTimeout
              THEN c \notin DOMAIN engClients' /\ closed'[c]
              ELSE c \in DOMAIN engClients' /\ engClients'[c] = engClients[c]]_vars

\* C29: once HandleAuth has answered auth_fail for a connection, no frame of
\* that connection is handed to the message handler any more.
C29_AuthFailIsTerminal ==
    [][\A c \in Conns :
          authResp[c].resp.Type = "auth_fail"
              => ~\E f \in ActivityFrames(c) : ReadFrame(c, f, TRUE, "nil")]_vars

\* C30: for an auth frame with a DID, HandleAuth answers auth_ok exactly when
\* the timestamp is at most 300 seconds away from the clock, both ends
\* included, and auth_fail with invalid_timestamp otherwise; for an auth frame
\* with an empty DID it answers auth_fail with invalid_did whatever the
\* timestamp.
C30_TimestampWindow ==
    \A c \in Conns :
        LET f == authResp[c].frame
            r == authResp[c].resp
            d == f.Timestamp - authResp[c].at
        IN  (f.kind = "json" /\ f.Type = "auth") =>
              IF f.DID = ""
              THEN r.Type = "auth_fail" /\ r.ErrorCode = "invalid_did"
              ELSE /\ r.Type = "auth_ok" <=> (d <= 300 /\ 0 - d <= 300)
                   /\ r.Type # "auth_ok" =>
                         r.Type = "auth_fail" /\ r.ErrorCode = "invalid_timestamp"

\* After the clock has moved, a handshake was accepted whose timestamp is
\* exactly 300 seconds ahead of the clock.
C30_Witness ==
    \E c \in Conns :
        /\ authResp[c].resp.Type = "auth_ok"
        /\ authResp[c].frame.Timestamp - authResp[c].at = 300
        /\ authResp[c].at > StartTime

C32_RetentionIsTTLMillis ==
    \A id \in DOMAIN store :
        LET m == store[id].message
        IN  store[id].ttl = IF m.TTL > 0 THEN m.TTL ELSE DefaultTTL

\* C33: a message with ttl = 0 is never persisted: whatever the engine has
\* received, the store holds no message whose ttl field is 0.
C33_ZeroTTLNeverStored ==
    \A id \in DOMAIN store : store[id].message.TTL # 0

\* C34: IsExpired is false for every message with ttl = 0 at every time, and
\* with ttl > 0 it is true exactly when now > ts + ttl, for all unsigned ts and
\* ttl of the word size, those whose sum passes the largest word included.
C34_IsExpiredExact ==
    expCall.done =>
        expCall.ret = IF expCall.TTL = 0 THEN FALSE
                      ELSE expCall.at > expCall.Ts + expCall.TTL

\* C35: a frame that fails to decode is not fatal: the step that reads it leaves
\* the store, the engine's client table and the hub's connection table as they
\* were, closes nothing, and leaves the connection reading, so that its later
\* frames are processed.  (The route table changes in RegisterRoute only.)
C35_DecodeFailureHarmless ==
    [][\A c \in Conns :
          decodeFailed'[c] # decodeFailed[c] =>
              /\ store' = store
              /\ engClients' = engClients
              /\ clients' = clients
              /\ closed' = closed
              /\ chanClosed' = chanClosed
              /\ rp[c] = "reading" /\ rp'[c] = "reading"]_vars

\* A message of a connection was routed and stored after a frame of the same
\* connection had failed to decode.
C35_Witness ==
    \E id \in DOMAIN log :
        /\ log[id].afterDecodeErr
        /\ log[id].saved
        /\ id \in DOMAIN store
        /\ ~closed[log[id].conn]

\* C36: whenever the processing of a frame fails, the sending connection gets an
\* error message with an error code that answers the request: a message that
\* could not be stored has an error response among the sends of its handler, and
\* the step that fails to decode a frame leaves the handler with an error
\* message to send to the sender.
C36_FailureAnswered ==
    /\ [](\A id \in DOMAIN log : ~log[id].saved => log[id].errs # {})
    /\ [][\A c \in Conns :
             decodeFailed'[c] # decodeFailed[c] =>
                 \E i \in DOMAIN work'[c] :
                     /\ work'[c][i].kind = "error"
                     /\ work'[c][i].to = c]_vars

\* C37: a Get that found its entry expired and, once it holds the write lock,
\* finds under the id an entry that has not expired (saved while it waited),
\* deletes nothing; and a Get that looks an entry up while it has not expired
\* is going to return the message of the entry that is in the map.
C37_FreshEntrySurvives ==
    /\ [][\A p \in Procs :
             LET id == storeCalls[p].id
             IN  (/\ storeCalls[p].pc = "upgrade"
                  /\ storeCalls'[p].pc = "idle"
                  /\ id \in DOMAIN store
                  /\ ~EntryExpired(store[id], now))
                    => /\ store' = store
                       /\ storeLast'.ret = <<>>]_vars
    /\ [](\A q \in Procs :
             storeCalls[q].pc = "found" =>
                 /\ storeCalls[q].id \in DOMAIN store
                 /\ storeCalls[q].ret = store[storeCalls[q].id].message)

\* A Get that had found its entry expired has just returned nothing, and the map
\* holds under the id an entry saved in the meantime, which has not expired.
C37_Witness ==
    /\ storeLast = StoreReturn("get", storeLast.id, <<>>, TRUE)
    /\ storeLast.id \in DOMAIN store
    /\ ~EntryExpired(store[storeLast.id], now)
    /\ store[storeLast.id].savedAt > StartTime

\* C38: once RevokeToken(t) has returned success no token derived from t is
\* valid: a RefreshToken(t) running concurrently with the revoke completes
\* before it or fails, so the table never holds the new token of a refresh of a
\* token that was revoked with success.
C38_NoTokenFromRevoked ==
    \A pr \in authHist.refreshed :
        pr[1] \in DOMAIN authHist.revokes => pr[2] \notin DOMAIN tokens

\* C39: with two transports started under one DID, the end of the receive loop
\* of the one that is not registered (the older) leaves the registration of the
\* other in place, so that Forward still reaches it.
C39_OlderExitKeepsNewer ==
    [][\A t \in Transports :
          (/\ loopPc[t] = "receiving"
           /\ loopPc'[t] = "done"
           /\ LocalDID(t) \in DOMAIN transports
           /\ transports[LocalDID(t)] # t)
             => /\ transports' = transports
                /\ Forward(transports', LocalDID(t), "nil").via = transports[LocalDID(t)]]_vars

\* C40: while the hub is running, a connection whose socket was closed (a slow
\* consumer closed by a broadcast, a read or a write error) is removed from the
\* connection table in the end; SendToClient for an id that is not in the table
\* returns false and a broadcast enqueues nothing to it; and the table only
\* ever gains a connection that registers for the first time, never one that
\* was removed.
C40_ClosedIsRemoved ==
    /\ \A c \in HubConns :
          (c \in clients /\ (SocketClosed(c) \/ rp[c] = "unregistering"))
              ~> (c \notin clients \/ ctxDone \/ panicked # "none")
    /\ [][\A c \in HubConns :
             /\ (c \in clients' /\ c \notin clients)
                   => (rp[c] = "registering" /\ wp[c] = "idle" /\ ~SocketClosed(c))
             /\ (c \notin clients /\ c \notin clients')
                   => sendChan'[c] # Append(sendChan[c], BroadcastFrame)
             /\ (/\ rp[c] = "handling"
                 /\ Head(work[c]).to \notin clients
                 /\ <<rp[c], work[c]>> # <<rp'[c], work'[c]>>)
                   => /\ rp'[c] # "sending"
                      /\ <<Head(work[c]).kind, Head(work[c]).to, FALSE>>
                            \in log'[Head(work[c]).id].sent]_vars

\* A connection closed as a slow consumer has been removed by the running hub
\* and its read loop has ended.
C40_Witness ==
    \E c \in HubConns :
        /\ closed[c]
        /\ c \notin clients
        /\ rp[c] = "done"
        /\ hubPc = "running"
        /\ ~ctxDone
        /\ panicked = "none"

====
